---- MODULE Spec2Model ----
(***************************************************************************)
(* Azure Monitor metrics exporter (opencensus-ext-azure, metrics_exporter) *)
(* as a state machine: construction, the export cycle run by the periodic  *)
(* exporter thread and by the flush of close(), the retry store, shutdown. *)
(***************************************************************************)
EXTENDS Integers, Sequences, FiniteSets, TLC

\* ---------------------------------------------------------------- bounds
MaxMetrics == 1        \* metrics handed to one export_metrics call
MaxTicks == 2          \* timer ticks of the periodic exporter thread
MaxShutdowns == 2      \* invocations of shutdown()
MaxTime == 1           \* the clock runs 0..MaxTime
MaxProcessors == 1     \* telemetry processors registered
MaxBatchSize == 2      \* largest max_batch_size option offered
MaxRetryInterval == 1  \* minimum_retry_interval options offered: 1..MaxRetryInterval
MaxSeries == 2         \* time series of a metric given to the converter
MaxPoints == 2         \* points of a time series
MaxLabels == 2         \* label keys of a descriptor, label values of a time series
MaxConsecutiveRedirects == 2  \* ceiling of the transmitter's consecutive redirects
MaxStorageSize == 2    \* largest storage_max_size option offered, in envelopes
MaxRetention == 1      \* largest storage_retention_period option offered

\* ------------------------------------------------------------ vocabulary
SUCCESS == "SUCCESS"
RETRY == "RETRY"
DROP == "DROP"
STATSBEAT_SHUTDOWN == "STATSBEAT_SHUTDOWN"
TransportStatusCode == {SUCCESS, RETRY, DROP, STATSBEAT_SHUTDOWN}

CUMULATIVE_DISTRIBUTION == "CUMULATIVE_DISTRIBUTION"
GAUGE_INT64 == "GAUGE_INT64"
NoneValue == "<None>"

WellFormedKey == "1234abcd-5678-4efa-8abc-1234567890ab"
InstrumentationKeys == {"", "not-a-key", WellFormedKey}


\* ----------------------------------------------------------- the inputs
Point(v, t) == [value |-> v, timestamp |-> t]
Series(lv, pts) == [label_values |-> lv, points |-> pts]
Metric(ty, keys, ts) == [type |-> ty, name |-> "m", label_keys |-> keys, time_series |-> ts]

H1 == Metric(CUMULATIVE_DISTRIBUTION, <<"k">>, <<Series(<<"a">>, <<Point(9, 0)>>)>>)
G1 == Metric(GAUGE_INT64, <<"k">>, <<Series(<<NoneValue>>, <<Point(1, 0), Point(7, 1)>>)>>)
G3 == Metric(GAUGE_INT64, <<"k", "l">>,
             <<Series(<<"a", "b">>, <<Point(4, 0)>>), Series(<<"c", NoneValue>>, <<Point(5, 0)>>),
               Series(<<"d", "e">>, <<Point(6, 1)>>)>>)
G0 == Metric(GAUGE_INT64, <<>>, <<Series(<<>>, <<>>)>>)
MetricSamples == {H1, G1, G3, G0}

RECURSIVE SeqsUpTo(_, _)
SeqsUpTo(S, n) ==
  IF n = 0 THEN {<<>>}
  ELSE LET shorter == SeqsUpTo(S, n - 1)
       IN shorter \cup {Append(s, x) : s \in {t \in shorter : Len(t) = n - 1}, x \in S}

MetricsInputs == SeqsUpTo(MetricSamples, MaxMetrics)

\* every metric within the bounds, for the converter on its own: a time series
\* may hold no point and may carry fewer or more label values than there are keys
LabelKeys == {"k", "l"}
LabelValues == {"a", NoneValue}
PointsOffered == {Point(t + 1, t) : t \in 0..MaxTime}
DescriptorTypes == {CUMULATIVE_DISTRIBUTION, GAUGE_INT64}
Distinct(keys) == \A i, j \in 1..Len(keys) : keys[i] = keys[j] => i = j
SeriesOffered ==
  {Series(lv, pts) : lv \in SeqsUpTo(LabelValues, MaxLabels),
                     pts \in SeqsUpTo(PointsOffered, MaxPoints)}
MetricsOffered ==
  {Metric(ty, keys, ts) : ty \in DescriptorTypes,
                          keys \in {ks \in SeqsUpTo(LabelKeys, MaxLabels) : Distinct(ks)},
                          ts \in SeqsUpTo(SeriesOffered, MaxSeries)}
ConverterInputs == SeqsUpTo(MetricsOffered, MaxMetrics)

\* ------------------------------------------------------------ Converter
IsoFormat(t) == <<"iso", t>>

_create_data_points(time_series, md) ==
  [i \in 1..Len(time_series.points) |->
     [ns |-> md.name, name |-> md.name, value |-> time_series.points[i].value]]

\* lines 131-134: the value stored for a label value
PropertyValue_Unencoded(v) == v

PropertyValue(v) == IF v = NoneValue THEN "null" ELSE v

_create_properties(time_series, md) ==
  [k \in {md.label_keys[i] : i \in 1..Len(md.label_keys)} |->
     LET i == CHOOSE j \in 1..Len(md.label_keys) :
                /\ md.label_keys[j] = k
                /\ \A h \in (j + 1)..Len(md.label_keys) : md.label_keys[h] # k
     IN PropertyValue(time_series.label_values[i])]

_create_envelope(stats, ikey, data_point, timestamp, properties) ==
  [iKey |-> ikey,
   time |-> IsoFormat(timestamp),
   name |-> IF stats THEN "Statsbeat" ELSE "Microsoft.ApplicationInsights.Metric",
   metrics |-> <<data_point>>,
   properties |-> properties]

\* IndexError: [0] of an empty list (lines 104, 106), label_values[i] past its end (131)
SeriesRaises(time_series, md) ==
  \/ Len(time_series.points) = 0
  \/ Len(time_series.label_values) < Len(md.label_keys)

\* lines 95-96: no support for histogram aggregations
Supported_All(metric) == TRUE

Supported(metric) == metric.type # CUMULATIVE_DISTRIBUTION

MetricRaises(metric) ==
  /\ Supported(metric)
  /\ \E i \in 1..Len(metric.time_series) : SeriesRaises(metric.time_series[i], metric)

metric_to_envelopes(stats, ikey, metric) ==
  IF Supported(metric)
  THEN [i \in 1..Len(metric.time_series) |->
          LET time_series == metric.time_series[i]
          IN _create_envelope(stats, ikey,
                              _create_data_points(time_series, metric)[1],
                              time_series.points[1].timestamp,
                              _create_properties(time_series, metric))]
  ELSE <<>>

RECURSIVE ExtendAll(_, _, _)
ExtendAll(stats, ikey, ms) ==
  IF ms = <<>> THEN <<>>
  ELSE metric_to_envelopes(stats, ikey, Head(ms)) \o ExtendAll(stats, ikey, Tail(ms))

AnyRaises(ms) == \E i \in 1..Len(ms) : MetricRaises(ms[i])

\* -------------------------------------------------------------- Batcher
RECURSIVE window(_, _)
window(ible, length) ==
  IF Len(ible) = 0 THEN <<>>
  ELSE IF Len(ible) <= length THEN <<ible>>
  ELSE <<SubSeq(ible, 1, length)>> \o window(SubSeq(ible, length + 1, Len(ible)), length)

batched_envelopes_OffByOne(envs, max_batch_size) == window(envs, max_batch_size + 1)

batched_envelopes(envs, max_batch_size) == window(envs, max_batch_size)

\* ---------------------------------------------------------------- state
VARIABLES
  phase,                \* "new", "constructed" or "failed": outcome of __init__
  error,                \* what __init__ raised
  options,              \* self.options
  is_stats,             \* self._is_stats
  storage,              \* self.storage: "none" (None), "open" or "closed"
  atexit_registered,    \* atexit.register(self.shutdown) was executed
  _consecutive_redirects,  \* self._consecutive_redirects
  exporter_thread,      \* self.exporter_thread: "none" (None), "running", "finished"
  telemetry_processors, \* self._telemetry_processors
  pc,                   \* position inside export_metrics
  metrics,              \* the metrics export_metrics was called with
  envelopes,            \* the envelopes gathered by the cycle
  batches,              \* batched_envelopes
  idx,                  \* index of the batch of the for loop
  batch,                \* the batch after the telemetry processors
  result,               \* the result of _transmit
  trace,                \* what the current cycle has done so far
  blobs,                \* the records held by the retry store, in arrival order
  swept,                \* the last thing done to the store was a maintenance sweep
  drain_mark,           \* records of the store the drain has yet to look at
  now,                  \* the clock
  ticks,                \* timer ticks of the exporter thread so far
  sd_pc,                \* position inside shutdown()
  shutdowns,            \* invocations of shutdown() so far
  atexit_fired,         \* the process-exit hook has run
  thread_close_calls,   \* calls of exporter_thread.close()
  thread_cancel_calls,  \* calls of exporter_thread.cancel()
  storage_close_calls,  \* calls of storage.close()
  statsbeat_shutdown    \* shutdown_statsbeat_metrics() has run

cfg_vars == <<phase, error, options, is_stats, atexit_registered, _consecutive_redirects>>
cycle_vars == <<pc, metrics, envelopes, batches, idx, batch, result, trace, drain_mark>>
store_vars == <<blobs, swept>>
sd_vars == <<sd_pc, shutdowns, atexit_fired, thread_close_calls, thread_cancel_calls,
             storage_close_calls>>
vars == <<cfg_vars, storage, exporter_thread, telemetry_processors, cycle_vars,
          store_vars, now, ticks, sd_vars, statsbeat_shutdown>>

NoOptions == [instrumentation_key |-> "", max_batch_size |-> 0,
              enable_local_storage |-> FALSE, minimum_retry_interval |-> 0,
              storage_max_size |-> 0, storage_retention_period |-> 0]

Init ==
  /\ phase = "new"
  /\ error = "none"
  /\ options = NoOptions
  /\ is_stats = FALSE
  /\ storage = "none"
  /\ atexit_registered = FALSE
  /\ _consecutive_redirects = 0
  /\ exporter_thread = "none"
  /\ telemetry_processors = <<>>
  /\ pc = "idle"
  /\ metrics = <<>>
  /\ envelopes = <<>>
  /\ batches = <<>>
  /\ idx = 0
  /\ batch = <<>>
  /\ result = "none"
  /\ trace = <<>>
  /\ blobs = <<>>
  /\ swept = FALSE
  /\ drain_mark = 0
  /\ now = 0
  /\ ticks = 0
  /\ sd_pc = "idle"
  /\ shutdowns = 0
  /\ atexit_fired = FALSE
  /\ thread_close_calls = 0
  /\ thread_cancel_calls = 0
  /\ storage_close_calls = 0
  /\ statsbeat_shutdown = FALSE

\* --------------------------------------------------------- construction
validate_instrumentation_key(key) == key = WellFormedKey

BatchSizeInvalid_Negative(max_batch_size) == max_batch_size < 0

BatchSizeInvalid(max_batch_size) == max_batch_size <= 0

\* lines 46-48: what __init__ raises, the key being looked at first
ConfigurationError_BatchSizeFirst(key, mbs) ==
  IF BatchSizeInvalid(mbs) THEN "max_batch_size"
  ELSE IF ~validate_instrumentation_key(key) THEN "instrumentation_key"
  ELSE "none"

ConfigurationError(key, mbs) ==
  IF ~validate_instrumentation_key(key) THEN "instrumentation_key"
  ELSE IF BatchSizeInvalid(mbs) THEN "max_batch_size"
  ELSE "none"

Construct(key, mbs, stats, els, mri, sms, srp) ==
  /\ phase = "new"
  /\ options' = [instrumentation_key |-> key, max_batch_size |-> mbs,
                 enable_local_storage |-> els, minimum_retry_interval |-> mri,
                 storage_max_size |-> sms, storage_retention_period |-> srp]
  /\ is_stats' = stats
  /\ IF ConfigurationError(key, mbs) # "none"
     THEN /\ phase' = "failed"
          /\ error' = ConfigurationError(key, mbs)
          /\ UNCHANGED <<storage, atexit_registered, _consecutive_redirects>>
     ELSE /\ phase' = "constructed"
          /\ error' = "none"
          /\ storage' = IF els THEN "open" ELSE "none"
          /\ atexit_registered' = TRUE
          /\ _consecutive_redirects' = 0
  /\ UNCHANGED <<exporter_thread, telemetry_processors, cycle_vars, store_vars, now,
                 ticks, sd_vars, statsbeat_shutdown>>

\* lines 168-175: the thread is attached before the exporter is handed out, so
\* before anything can call its shutdown()
get_exporter_thread ==
  /\ phase = "constructed"
  /\ exporter_thread = "none"
  /\ shutdowns = 0
  /\ exporter_thread' = "running"
  /\ UNCHANGED <<cfg_vars, storage, telemetry_processors, cycle_vars, store_vars, now,
                 ticks, sd_vars, statsbeat_shutdown>>

add_telemetry_processor ==
  /\ phase = "constructed"
  /\ Len(telemetry_processors) < MaxProcessors
  /\ telemetry_processors' = Append(telemetry_processors, "processor")
  /\ UNCHANGED <<cfg_vars, storage, exporter_thread, cycle_vars, store_vars, now,
                 ticks, sd_vars, statsbeat_shutdown>>

Tock ==
  /\ now < MaxTime
  /\ now' = now + 1
  /\ UNCHANGED <<cfg_vars, storage, exporter_thread, telemetry_processors, cycle_vars,
                 store_vars, ticks, sd_vars, statsbeat_shutdown>>

\* --------------------------------------------------------- collaborators
Event(e, i, r) == [ev |-> e, i |-> i, r |-> r]

\* every order-preserving selection of the envelopes of b
RECURSIVE Selections(_)
Selections(b) ==
  IF b = <<>> THEN {<<>>}
  ELSE LET rest == Selections(Tail(b))
       IN rest \cup {<<Head(b)>> \o t : t \in rest}

\* ProcessorMixin: without processors the batch is unchanged; a processor may
\* drop any envelope, or all of them
apply_telemetry_processors(processors, b) ==
  IF processors = <<>> THEN {b} ELSE Selections(b)

\* TransportMixin._transmit: one send, one outcome; nothing is sent for an
\* empty batch, which counts as delivered
TransmitOutcomes(b) == IF b = <<>> THEN {SUCCESS} ELSE TransportStatusCode

_is_stats_exporter == is_stats

\* LocalFileStorage.put: a record stamped with the write time, filed after the
\* records that arrived before it
put(store, b, delay) == Append(store, [batch |-> b, wtime |-> now, delay |-> delay])

\* LocalFileStorage.get: the records not yet returned in this drain (the first
\* drain_mark ones: what a drain puts back is filed behind them) whose retry
\* delay has elapsed
Eligible_Unaged == {j \in 1..Len(blobs) : j <= drain_mark}

Eligible ==
  {j \in 1..Len(blobs) : /\ j <= drain_mark
                         /\ blobs[j].wtime + blobs[j].delay <= now}

Oldest == CHOOSE j \in Eligible : \A k \in Eligible : j <= k

Remove(store, j) == SubSeq(store, 1, j - 1) \o SubSeq(store, j + 1, Len(store))

\* -------------------------------------------------------- export_metrics
StatsShutdown_Ignored(r) == FALSE

StatsShutdown_AnyExporter(r) == r = STATSBEAT_SHUTDOWN

StatsShutdown(r) == _is_stats_exporter /\ r = STATSBEAT_SHUTDOWN

ShouldStore_NotSuccess(r) == storage # "none" /\ r # SUCCESS

ShouldStore_Always(r) == storage # "none"

ShouldStore(r) == storage # "none" /\ r = RETRY

RetryDelay_WrongOption == options.max_batch_size

RetryDelay == options.minimum_retry_interval

HasRoom_Inclusive(envs) == Len(envs) <= options.max_batch_size

HasRoom(envs) == Len(envs) < options.max_batch_size

\* lines 87-90: where the cycle goes once the for loop is over
AfterLoop(envs) == IF HasRoom(envs) THEN "drain" ELSE "done"

AfterLoopEvent(envs) == IF HasRoom(envs) THEN Event("drain", 0, "-") ELSE Event("end", 0, "-")

NextIndex_Skipping(i) == i + 2

NextIndex(i) == i + 1

\* lines 68-73, up to the entry of the for loop
Begin(ms) ==
  /\ pc = "idle"
  /\ metrics' = ms
  /\ idx' = 1
  /\ batch' = <<>>
  /\ result' = "none"
  /\ IF AnyRaises(ms)
     THEN /\ trace' = <<Event("raise", 0, "IndexError")>>
          /\ envelopes' = <<>>
          /\ batches' = <<>>
          /\ pc' = "done"
          /\ UNCHANGED drain_mark
     ELSE IF options.max_batch_size <= 0
     THEN /\ trace' = <<Event("raise", 0, "ValueError")>>
          /\ envelopes' = ExtendAll(is_stats, options.instrumentation_key, ms)
          /\ batches' = <<>>
          /\ pc' = "done"
          /\ UNCHANGED drain_mark
     ELSE LET envs == ExtendAll(is_stats, options.instrumentation_key, ms)
              bs == batched_envelopes(envs, options.max_batch_size)
          IN /\ envelopes' = envs
             /\ batches' = bs
             /\ IF bs = <<>>
                THEN /\ pc' = AfterLoop(envs)
                     /\ trace' = <<AfterLoopEvent(envs)>>
                     /\ drain_mark' = Len(blobs)
                ELSE /\ pc' = "transmit"
                     /\ trace' = <<>>
                     /\ UNCHANGED drain_mark

\* the periodic task of the exporter thread calls export_metrics
TimerTick(ms) ==
  /\ phase = "constructed"
  /\ exporter_thread = "running"
  /\ sd_pc \notin {"flush", "flushing"}
  /\ ~(is_stats /\ statsbeat_shutdown)
  /\ ticks < MaxTicks
  /\ ticks' = ticks + 1
  /\ Begin(ms)
  /\ UNCHANGED <<cfg_vars, storage, exporter_thread, telemetry_processors, store_vars,
                 now, sd_vars, statsbeat_shutdown>>

\* lines 75-76
Transmit(kept, r) ==
  /\ pc = "transmit"
  /\ kept \in apply_telemetry_processors(telemetry_processors, batches[idx])
  /\ r \in TransmitOutcomes(kept)
  /\ batch' = kept
  /\ result' = r
  /\ trace' = Append(trace, Event(IF kept = <<>> THEN "skip" ELSE "tx", idx, "-"))
  /\ pc' = "handle"
  /\ UNCHANGED <<cfg_vars, storage, exporter_thread, telemetry_processors, metrics,
                 envelopes, batches, idx, drain_mark, store_vars, now, ticks, sd_vars,
                 statsbeat_shutdown>>

\* lines 77-90: the statsbeat return, the put, and the step to the next batch
\* or past the loop
Handle ==
  /\ pc = "handle"
  /\ IF StatsShutdown(result)
     THEN /\ statsbeat_shutdown' = TRUE
          /\ pc' = "done"
          /\ trace' = Append(trace, Event("shutdown", idx, "-"))
          /\ UNCHANGED <<idx, drain_mark, store_vars>>
     ELSE LET stored == ShouldStore(result)
              last == NextIndex(idx) > Len(batches)
              t1 == IF stored
                    THEN Append(trace, Event("put", idx, result))
                    ELSE trace
          IN /\ blobs' = IF stored THEN put(blobs, batch, RetryDelay) ELSE blobs
             /\ swept' = IF stored THEN FALSE ELSE swept
             /\ IF last
                THEN /\ pc' = AfterLoop(envelopes)
                     /\ trace' = Append(t1, AfterLoopEvent(envelopes))
                     /\ drain_mark' = Len(blobs')
                     /\ UNCHANGED idx
                ELSE /\ pc' = "transmit"
                     /\ trace' = t1
                     /\ idx' = NextIndex(idx)
                     /\ UNCHANGED drain_mark
             /\ UNCHANGED statsbeat_shutdown
  /\ UNCHANGED <<cfg_vars, storage, exporter_thread, telemetry_processors, metrics,
                 envelopes, batches, batch, result, now, ticks, sd_vars>>

\* TransportMixin._transmit_from_storage: one record taken from the store and
\* sent again
DrainOne(r) ==
  /\ pc = "drain"
  /\ storage # "none"
  /\ Eligible # {}
  /\ r \in TransportStatusCode
  /\ LET j == Oldest
         rec == blobs[j]
         rest == Remove(blobs, j)
         t1 == Append(trace, Event("retx", rec.wtime, "-"))
     IN IF StatsShutdown(r)
        THEN /\ statsbeat_shutdown' = TRUE
             /\ pc' = "done"
             /\ trace' = Append(t1, Event("shutdown", 0, "-"))
             /\ blobs' = rest
             /\ swept' = FALSE
             /\ drain_mark' = 0
        ELSE /\ blobs' = IF r = RETRY THEN put(rest, rec.batch, RetryDelay) ELSE rest
             /\ swept' = FALSE
             /\ drain_mark' = drain_mark - 1
             /\ trace' = IF r = RETRY
                         THEN Append(t1, Event("reput", rec.wtime, r))
                         ELSE t1
             /\ UNCHANGED <<pc, statsbeat_shutdown>>
  /\ UNCHANGED <<cfg_vars, storage, exporter_thread, telemetry_processors, metrics,
                 envelopes, batches, idx, batch, result, now, ticks, sd_vars>>

DrainEnd ==
  /\ pc = "drain"
  /\ storage = "none" \/ Eligible = {}
  /\ pc' = "done"
  /\ trace' = Append(trace, Event("end", 0, "-"))
  /\ UNCHANGED <<cfg_vars, storage, exporter_thread, telemetry_processors, metrics,
                 envelopes, batches, idx, batch, result, drain_mark, store_vars, now,
                 ticks, sd_vars, statsbeat_shutdown>>

\* export_metrics has returned (or raised): its locals are gone
Forget ==
  /\ pc' = "idle"
  /\ metrics' = <<>>
  /\ envelopes' = <<>>
  /\ batches' = <<>>
  /\ idx' = 0
  /\ batch' = <<>>
  /\ result' = "none"
  /\ trace' = <<>>
  /\ drain_mark' = 0

\* the periodic task goes back to waiting for its next tick
TimerWait ==
  /\ pc = "done"
  /\ sd_pc # "flushing"
  /\ Forget
  /\ UNCHANGED <<cfg_vars, storage, exporter_thread, telemetry_processors, store_vars,
                 now, ticks, sd_vars, statsbeat_shutdown>>

\* ------------------------------------------------------------- shutdown
ShutdownCall(caller) ==
  /\ phase = "constructed"
  /\ sd_pc = "idle"
  /\ shutdowns < MaxShutdowns
  /\ caller = "atexit" => atexit_registered /\ ~atexit_fired
  /\ atexit_fired' = (atexit_fired \/ caller = "atexit")
  /\ shutdowns' = shutdowns + 1
  /\ sd_pc' = "thread"
  /\ UNCHANGED <<cfg_vars, storage, exporter_thread, telemetry_processors, cycle_vars,
                 store_vars, now, ticks, thread_close_calls, thread_cancel_calls,
                 storage_close_calls, statsbeat_shutdown>>

\* line 158: the exporter that is not for stats is flushed
FlushOnShutdown_Always == TRUE

FlushOnShutdown == ~is_stats

\* line 156: `if self.exporter_thread`
HasExporterThread_Never == FALSE

HasExporterThread == exporter_thread # "none"

\* lines 156-161
ShutdownThread ==
  /\ sd_pc = "thread"
  /\ IF HasExporterThread
     THEN IF FlushOnShutdown
          THEN /\ thread_close_calls' = thread_close_calls + 1
               /\ sd_pc' = IF exporter_thread = "running" THEN "flush" ELSE "storage"
               /\ UNCHANGED <<thread_cancel_calls, exporter_thread>>
          ELSE /\ thread_cancel_calls' = thread_cancel_calls + 1
               /\ exporter_thread' = "finished"
               /\ sd_pc' = "storage"
               /\ UNCHANGED thread_close_calls
     ELSE /\ sd_pc' = "storage"
          /\ UNCHANGED <<thread_close_calls, thread_cancel_calls, exporter_thread>>
  /\ UNCHANGED <<cfg_vars, storage, telemetry_processors, cycle_vars, store_vars, now,
                 ticks, shutdowns, atexit_fired, storage_close_calls, statsbeat_shutdown>>

\* exporter_thread.close() of a running task: once the cycle in flight is over,
\* one last export ...
Flush(ms) ==
  /\ sd_pc = "flush"
  /\ sd_pc' = "flushing"
  /\ Begin(ms)
  /\ UNCHANGED <<cfg_vars, storage, exporter_thread, telemetry_processors, store_vars,
                 now, ticks, shutdowns, atexit_fired, thread_close_calls,
                 thread_cancel_calls, storage_close_calls, statsbeat_shutdown>>

\* ... and then the periodic task is stopped
FlushDone ==
  /\ sd_pc = "flushing"
  /\ pc = "done"
  /\ Forget
  /\ exporter_thread' = "finished"
  /\ sd_pc' = "storage"
  /\ UNCHANGED <<cfg_vars, storage, telemetry_processors, store_vars, now,
                 ticks, shutdowns, atexit_fired, thread_close_calls, thread_cancel_calls,
                 storage_close_calls, statsbeat_shutdown>>

\* lines 162-164
ShutdownStorage ==
  /\ sd_pc = "storage"
  /\ IF storage # "none"
     THEN /\ storage' = "closed"
          /\ storage_close_calls' = storage_close_calls + 1
     ELSE UNCHANGED <<storage, storage_close_calls>>
  /\ sd_pc' = "idle"
  /\ UNCHANGED <<cfg_vars, exporter_thread, telemetry_processors, cycle_vars, store_vars,
                 now, ticks, shutdowns, atexit_fired, thread_close_calls,
                 thread_cancel_calls, statsbeat_shutdown>>

\* -------------------------------------------------------- specification
Next ==
  \/ \E key \in InstrumentationKeys, mbs \in 0..MaxBatchSize, stats \in BOOLEAN,
        els \in BOOLEAN, mri \in 1..MaxRetryInterval :
        Construct(key, mbs, stats, els, mri, MaxStorageSize, MaxRetention)
  \/ get_exporter_thread
  \/ add_telemetry_processor
  \/ Tock
  \/ \E ms \in MetricsInputs : TimerTick(ms)
  \/ pc = "transmit" /\ \E kept \in Selections(batches[idx]), r \in TransportStatusCode :
        Transmit(kept, r)
  \/ Handle
  \/ \E r \in TransportStatusCode : DrainOne(r)
  \/ DrainEnd
  \/ TimerWait
  \/ \E caller \in {"explicit", "atexit"} : ShutdownCall(caller)
  \/ ShutdownThread
  \/ \E ms \in MetricsInputs : Flush(ms)
  \/ FlushDone
  \/ ShutdownStorage

Spec == Init /\ [][Next]_vars

\* the converter on its own: an exporter is constructed and export_metrics is
\* called once, with any metrics within the bounds, up to the entry of its loop
Convert(ms) ==
  /\ phase = "constructed"
  /\ Begin(ms)
  /\ UNCHANGED <<cfg_vars, storage, exporter_thread, telemetry_processors, store_vars,
                 now, ticks, sd_vars, statsbeat_shutdown>>

NextConverter ==
  \/ \E key \in InstrumentationKeys, mbs \in 0..MaxBatchSize, stats \in BOOLEAN,
        els \in BOOLEAN, mri \in 1..MaxRetryInterval :
        Construct(key, mbs, stats, els, mri, MaxStorageSize, MaxRetention)
  \/ pc = "idle" /\ phase = "constructed" /\ \E ms \in ConverterInputs : Convert(ms)

ConverterSpec == Init /\ [][NextConverter]_vars

\* ---------------------------------------------------------- Transmitter
\* _transmit against an endpoint that may answer with a redirect: the call
\* sends, and on a redirect sends again to the new endpoint, counting the
\* redirects it has followed in a row; past the ceiling it gives up with RETRY
REDIRECT == "REDIRECT"
Answers == TransportStatusCode \cup {REDIRECT}

FollowRedirect_Always == TRUE

FollowRedirect == _consecutive_redirects < MaxConsecutiveRedirects

\* a call of _transmit starts: the first request goes out
Send ==
  /\ pc = "transmit"
  /\ pc' = "sending"
  /\ batch' = batches[idx]
  /\ _consecutive_redirects' = 0
  /\ trace' = Append(trace, Event("send", idx, "-"))
  /\ UNCHANGED <<phase, error, options, is_stats, atexit_registered, storage,
                 exporter_thread, telemetry_processors, metrics, envelopes, batches,
                 idx, result, drain_mark, store_vars, now, ticks, sd_vars,
                 statsbeat_shutdown>>

\* the endpoint answers the request that is out
Respond(answer) ==
  /\ pc = "sending"
  /\ IF answer = REDIRECT /\ FollowRedirect
     THEN /\ _consecutive_redirects' = _consecutive_redirects + 1
          /\ trace' = Append(Append(trace, Event("answer", idx, answer)),
                             Event("send", idx, "-"))
          /\ UNCHANGED <<pc, result>>
     ELSE /\ result' = IF answer = REDIRECT THEN RETRY ELSE answer
          /\ trace' = Append(trace, Event("answer", idx, answer))
          /\ pc' = "handle"
          /\ UNCHANGED _consecutive_redirects
  /\ UNCHANGED <<phase, error, options, is_stats, atexit_registered, storage,
                 exporter_thread, telemetry_processors, metrics, envelopes, batches,
                 idx, batch, drain_mark, store_vars, now, ticks, sd_vars,
                 statsbeat_shutdown>>

NextTransmitter ==
  \/ \E key \in InstrumentationKeys, mbs \in 0..MaxBatchSize, stats \in BOOLEAN,
        els \in BOOLEAN, mri \in 1..MaxRetryInterval :
        Construct(key, mbs, stats, els, mri, MaxStorageSize, MaxRetention)
  \/ pc = "idle" /\ phase = "constructed" /\ \E ms \in MetricsInputs : Convert(ms)
  \/ Send
  \/ \E answer \in Answers : Respond(answer)
  \/ Handle

TransmitterSpec == Init /\ [][NextTransmitter]_vars

\* ------------------------------------------------ RetryStore maintenance
\* the size of a stored record, one unit for each envelope it holds
SizeOf(rec) == Len(rec.batch)

RECURSIVE TotalSize(_)
TotalSize(store) ==
  IF store = <<>> THEN 0 ELSE SizeOf(Head(store)) + TotalSize(Tail(store))

\* line 56: max_size=self.options.storage_max_size
StorageMaxSize_OffByOne == options.storage_max_size + 1

StorageMaxSize == options.storage_max_size

\* line 58: retention_period=self.options.storage_retention_period
RetentionPeriod == options.storage_retention_period

IsExpired(rec) == now - rec.wtime > RetentionPeriod

Unexpired(store) == SelectSeq(store, LAMBDA rec : ~IsExpired(rec))

RECURSIVE EvictOldest(_)
EvictOldest(store) ==
  IF TotalSize(store) > StorageMaxSize THEN EvictOldest(Tail(store)) ELSE store

\* LocalFileStorage maintenance, on its own timer: the records past the
\* retention period are deleted, then the oldest ones until the store is
\* within its size cap; a drain under way loses the records it had yet to see
maintenance ==
  /\ phase = "constructed"
  /\ storage = "open"
  /\ LET kept == Unexpired(blobs)
         after == EvictOldest(kept)
         seen == Len(Unexpired(SubSeq(blobs, 1, drain_mark))) - (Len(kept) - Len(after))
     IN /\ blobs' = after
        /\ drain_mark' = IF seen > 0 THEN seen ELSE 0
  /\ swept' = TRUE
  /\ UNCHANGED <<cfg_vars, storage, exporter_thread, telemetry_processors, pc, metrics,
                 envelopes, batches, idx, batch, result, trace, now, ticks, sd_vars,
                 statsbeat_shutdown>>

\* the retry store under puts and gets of export cycles and maintenance sweeps
NextRetryStore ==
  \/ \E mbs \in 1..MaxBatchSize, mri \in 1..MaxRetryInterval, sms \in 1..MaxStorageSize,
        srp \in 0..MaxRetention : Construct(WellFormedKey, mbs, FALSE, TRUE, mri, sms, srp)
  \/ get_exporter_thread
  \/ Tock
  \/ \E ms \in MetricsInputs : TimerTick(ms)
  \/ pc = "transmit" /\ \E r \in TransportStatusCode : Transmit(batches[idx], r)
  \/ Handle
  \/ \E r \in TransportStatusCode : DrainOne(r)
  \/ DrainEnd
  \/ TimerWait
  \/ maintenance

RetryStoreSpec == Init /\ [][NextRetryStore]_vars

\* --------------------------------------------------------------- claims
EventsOf(kinds) == {k \in 1..Len(trace) : trace[k].ev \in kinds}

EventsFor(kinds, i) == {k \in EventsOf(kinds) : trace[k].i = i}

Raised == EventsOf({"raise"}) # {}

\* the statsbeat return of line 82 (a shutdown met by the drain carries i = 0)
LoopShutdown == \E k \in EventsOf({"shutdown"}) : trace[k].i > 0

HandleStep == pc = "handle" /\ pc' # "handle"

StoredRecord == [batch |-> batch, wtime |-> now, delay |-> options.minimum_retry_interval]

\* C1 as stated: whenever the outcome of a batch is RETRY, the step that
\* handles it adds the batch to the retry store, stamped with the write time
\* and the configured minimum retry interval.
C1_RetryAlwaysStored ==
  [][(HandleStep /\ result = RETRY) => blobs' = Append(blobs, StoredRecord)]_vars

\* C1 (amended): with local storage enabled, whenever the outcome of a batch is
\* RETRY, the step that handles it makes exactly one put: the store gains one
\* record holding the batch, the write time and the configured minimum retry
\* interval, which makes it eligible for get once that interval has elapsed.
C1_RetryStoredWhenEnabled ==
  [][(HandleStep /\ result = RETRY /\ options.enable_local_storage)
       => /\ blobs' = Append(blobs, StoredRecord)
          /\ Cardinality({k \in 1..Len(trace') : trace'[k].ev = "put" /\ trace'[k].i = idx}) = 1]_vars

C1_Witness ==
  /\ pc = "transmit"
  /\ result = RETRY
  /\ options.enable_local_storage
  /\ EventsFor({"put"}, idx - 1) # {}
  /\ blobs # <<>>
  /\ blobs[Len(blobs)].batch = batch
  /\ blobs[Len(blobs)].delay = options.minimum_retry_interval
  /\ blobs[Len(blobs)].wtime < now

\* C2 as stated: however often shutdown is invoked, the exporter thread is
\* closed or cancelled at most once and storage.close is called at most once.
C2_ShutdownReleasesOnce ==
  /\ thread_close_calls + thread_cancel_calls <= 1
  /\ storage_close_calls <= 1

\* C3: a batch is put only after its own transmission of this cycle returned
\* RETRY, and at most once; the same holds for what a drain puts back.
C3_PutOnlyOnRetry ==
  \A k \in EventsOf({"put", "reput"}) :
    /\ trace[k].r = RETRY
    /\ k > 1
    /\ trace[k - 1].ev = (IF trace[k].ev = "put" THEN "tx" ELSE "retx")
    /\ trace[k - 1].i = trace[k].i
    /\ trace[k].ev = "put" => Cardinality(EventsFor({"put"}, trace[k].i)) = 1

C3_Witness ==
  /\ pc = "done"
  /\ EventsFor({"put"}, 2) # {}
  /\ EventsFor({"tx"}, 1) # {}
  /\ EventsFor({"put"}, 1) = {}
  /\ EventsFor({"tx"}, 3) # {}
  /\ EventsFor({"put"}, 3) = {}

\* C4 as stated: a cycle that gathered N envelopes ends having drained the
\* retry store if and only if N is below the maximum batch size.
C4_DrainIffRoom ==
  (pc = "done" /\ ~Raised)
    => (EventsOf({"drain"}) # {} <=> Len(envelopes) < options.max_batch_size)

\* C4 (amended): a cycle that gathered N envelopes and was not ended by the
\* statsbeat shutdown return ends having called the drain if and only if N is
\* below the maximum batch size; the drain starts after every fresh batch has
\* had its transmission and its put.
C4_DrainIffRoomUnlessShutdown ==
  /\ (pc = "done" /\ ~Raised /\ ~LoopShutdown)
       => (EventsOf({"drain"}) # {} <=> Len(envelopes) < options.max_batch_size)
  /\ pc = "drain" => EventsOf({"drain"}) # {}
  /\ LoopShutdown => EventsOf({"drain"}) = {}
  /\ \A k \in EventsOf({"drain"}) :
       /\ Cardinality({j \in EventsOf({"tx", "skip"}) : j < k}) = Len(batches)
       /\ \A j \in 1..Len(trace) :
            trace[j].ev \in {"tx", "skip", "put"} <=> j < k

C4_Witness ==
  /\ pc = "done"
  /\ EventsOf({"drain"}) # {}
  /\ EventsOf({"put"}) # {}
  /\ EventsOf({"retx"}) # {}
  /\ Len(envelopes) = 1
  /\ options.max_batch_size = 2

Ceil(n, m) == (n + m - 1) \div m

RECURSIVE Concat(_)
Concat(ss) == IF ss = <<>> THEN <<>> ELSE Head(ss) \o Concat(Tail(ss))

\* C5: the batches of a cycle are ceil(N/M) non-empty runs of the gathered
\* envelopes, each of length M except possibly a shorter last one, whose
\* concatenation is the gathered sequence; with N = 0 there is no batch and
\* nothing is transmitted as fresh data.
C5_Batching ==
  (pc # "idle" /\ ~Raised)
    => LET n == Len(envelopes)
           m == options.max_batch_size
       IN /\ Len(batches) = Ceil(n, m)
          /\ \A i \in 1..Len(batches) :
               /\ Len(batches[i]) >= 1
               /\ Len(batches[i]) <= m
               /\ i < Len(batches) => Len(batches[i]) = m
          /\ Concat(batches) = envelopes
          /\ n = 0 => batches = <<>> /\ EventsOf({"tx", "skip"}) = {}
          /\ \A k \in EventsOf({"tx", "skip"}) : trace[k].i \in 1..Len(batches)

C5_Witness ==
  /\ pc = "done"
  /\ Len(envelopes) = 3
  /\ Len(batches) = 2
  /\ Len(batches[1]) = 2
  /\ Len(batches[2]) = 1
  /\ EventsFor({"tx"}, 1) # {}
  /\ EventsFor({"tx"}, 2) # {}

Attempts == EventsOf({"tx", "skip"})

\* C6: the batches of a cycle get their transmission one after the other in
\* batch order, the put of a batch comes right after its own transmission and
\* so before the next one, and whatever the outcomes (RETRY and DROP among
\* them) a cycle that is not ended by the statsbeat return gives every batch
\* exactly one call of _transmit.
C6_SequentialInOrder ==
  /\ \A k \in Attempts : Cardinality({j \in Attempts : j <= k}) = trace[k].i
  /\ \A k \in EventsOf({"put"}) :
       /\ k > 1
       /\ trace[k - 1].ev = "tx"
       /\ trace[k - 1].i = trace[k].i
  /\ \A k, j \in EventsOf({"put"}) : k < j => trace[k].i < trace[j].i
  /\ pc = "transmit" => Cardinality(Attempts) = idx - 1
  /\ pc = "handle" => Cardinality(Attempts) = idx
  /\ (pc \in {"drain", "done"} /\ ~Raised /\ ~LoopShutdown)
       => Cardinality(Attempts) = Len(batches)

C6_Witness ==
  /\ pc = "done"
  /\ Len(batches) = 3
  /\ EventsFor({"put"}, 1) # {}
  /\ EventsFor({"put"}, 2) = {}
  /\ EventsFor({"put"}, 3) # {}
  /\ result = RETRY
  /\ Cardinality(EventsOf({"tx"})) = 3

\* C7: on the statsbeat exporter a SpecialShutdown outcome ends the cycle at
\* once, with no put for the batch, no further batch and no drain, and from
\* then on the exporter transmits nothing and starts no cycle.
C7_StatsbeatStops ==
  /\ [](is_stats /\ statsbeat_shutdown /\ pc = "done"
          => /\ trace[Len(trace)].ev = "shutdown"
             /\ trace[Len(trace)].i > 0
                  => /\ EventsOf({"drain"}) = {}
                     /\ EventsFor({"put"}, trace[Len(trace)].i) = {}
                     /\ Cardinality(Attempts) = trace[Len(trace)].i)
  /\ [][/\ (is_stats /\ pc = "handle" /\ result = STATSBEAT_SHUTDOWN /\ pc' # "handle")
             => /\ pc' = "done"
                /\ statsbeat_shutdown'
                /\ blobs' = blobs
        /\ (is_stats /\ statsbeat_shutdown)
             => /\ statsbeat_shutdown'
                /\ pc' \in {"done", "idle"}
                /\ trace' \in {trace, <<>>}
                /\ blobs' = blobs]_vars

C7_Witness ==
  /\ is_stats
  /\ statsbeat_shutdown
  /\ pc = "idle"
  /\ exporter_thread = "running"
  /\ sd_pc = "idle"
  /\ ticks < MaxTicks
  /\ blobs # <<>>

\* C8: on the primary exporter a SpecialShutdown outcome shuts nothing down:
\* the batch is not stored and the cycle goes on to the next batch, or past
\* the loop to the drain decision, as for any other outcome that is not RETRY.
C8_PrimaryIgnoresShutdownSignal ==
  /\ [](~is_stats => ~statsbeat_shutdown)
  /\ [][(~is_stats /\ pc = "handle" /\ result = STATSBEAT_SHUTDOWN /\ pc' # "handle")
          => /\ blobs' = blobs
             /\ IF idx < Len(batches)
                THEN pc' = "transmit" /\ idx' = idx + 1
                ELSE /\ idx' = idx
                     /\ pc' = (IF Len(envelopes) < options.max_batch_size
                               THEN "drain" ELSE "done")]_vars

C8_Witness ==
  /\ ~is_stats
  /\ result = STATSBEAT_SHUTDOWN
  /\ pc = "done"
  /\ EventsOf({"tx"}) # {}
  /\ EventsOf({"put"}) = {}
  /\ EventsOf({"retx"}) # {}

\* C9: a batch that the telemetry processors emptied is not sent and not
\* stored, its outcome counts as delivered, and the cycle goes on with the
\* next batch.
C9_DroppedBatchSkipped ==
  /\ \A k \in EventsOf({"skip"}) :
       /\ EventsFor({"tx", "put"}, trace[k].i) = {}
       /\ k < Len(trace) => trace[k + 1].ev \in {"tx", "skip", "drain", "end"}
       /\ (k < Len(trace) /\ trace[k + 1].ev \in {"tx", "skip"})
            => trace[k + 1].i = trace[k].i + 1
       /\ (k < Len(trace) /\ trace[k + 1].ev \in {"drain", "end"})
            => trace[k].i = Len(batches)
  /\ (pc = "handle" /\ batch = <<>>)
       => result = SUCCESS /\ trace[Len(trace)].ev = "skip"
  /\ \A k \in EventsOf({"tx"}) : k = Len(trace) /\ pc = "handle" => batch # <<>>

C9_Witness ==
  /\ pc = "done"
  /\ storage = "open"
  /\ EventsFor({"skip"}, 1) # {}
  /\ EventsFor({"tx"}, 2) # {}
  /\ EventsFor({"put"}, 2) # {}
  /\ telemetry_processors # <<>>

\* C10: construction fails exactly when the instrumentation key is not well
\* formed or the maximum batch size is not positive; an exporter that exists,
\* and so any that runs export_metrics, has a valid key and a batch size of at
\* least 1, and no export raises a configuration error.
C10_ConfigurationFailsFast ==
  /\ phase # "new"
       => (phase = "failed"
             <=> \/ options.instrumentation_key # WellFormedKey
                 \/ options.max_batch_size <= 0)
  /\ phase = "failed" => error \in {"instrumentation_key", "max_batch_size"}
  /\ phase = "constructed" => error = "none"
  /\ (pc # "idle" \/ exporter_thread # "none" \/ sd_pc # "idle")
       => /\ phase = "constructed"
          /\ options.instrumentation_key = WellFormedKey
          /\ options.max_batch_size >= 1
  /\ \A k \in EventsOf({"raise"}) : trace[k].r # "ValueError"

C10_Witness ==
  /\ phase = "failed"
  /\ error = "max_batch_size"
  /\ options.max_batch_size = 0
  /\ options.instrumentation_key = WellFormedKey

\* the invocation of shutdown() in progress has not yet reached storage.close()
ReleasePending == sd_pc # "idle"

\* C11: shutdown closes (flushes) the thread of the primary exporter and cancels
\* that of the statsbeat exporter without a flush; storage.close() is the last
\* thing an invocation does, after the close or cancel, so that a batch that
\* fails with RETRY during the final flush is still put; with no exporter
\* thread, shutdown closes the storage and does nothing else.
C11_ThreadBeforeStorage ==
  /\ [](/\ storage # "none"
           => storage_close_calls = shutdowns - (IF ReleasePending THEN 1 ELSE 0)
        /\ is_stats => thread_close_calls = 0 /\ sd_pc \notin {"flush", "flushing"}
        /\ ~is_stats => thread_cancel_calls = 0)
  /\ [][/\ (sd_pc = "thread" /\ sd_pc' # "thread")
             => /\ (exporter_thread # "none" /\ ~is_stats)
                     => /\ thread_close_calls' = thread_close_calls + 1
                        /\ sd_pc' = (IF exporter_thread = "running"
                                     THEN "flush" ELSE "storage")
                /\ (exporter_thread # "none" /\ is_stats)
                     => /\ thread_cancel_calls' = thread_cancel_calls + 1
                        /\ sd_pc' = "storage"
                /\ exporter_thread = "none"
                     => /\ sd_pc' = "storage"
                        /\ thread_close_calls' = thread_close_calls
                        /\ thread_cancel_calls' = thread_cancel_calls
                /\ storage' = storage
                /\ storage_close_calls' = storage_close_calls
        /\ storage_close_calls' # storage_close_calls
             => sd_pc = "storage" /\ sd_pc' = "idle" /\ storage' = "closed"
        /\ (sd_pc = "flushing" /\ HandleStep /\ result = RETRY /\ storage # "none")
             => /\ blobs' = Append(blobs, StoredRecord)
                /\ storage_close_calls < shutdowns]_vars

C11_Witness ==
  /\ ~is_stats
  /\ sd_pc = "idle"
  /\ shutdowns = 1
  /\ thread_close_calls = 1
  /\ exporter_thread = "finished"
  /\ storage = "closed"
  /\ storage_close_calls = 1
  /\ ticks = 0
  /\ blobs # <<>>

\* an invocation of shutdown() has gone past lines 156-161
Signalled == shutdowns > 1 \/ (shutdowns = 1 /\ sd_pc # "thread")

\* C12: once shutdown has closed or cancelled the exporter thread, the thread
\* takes no further timer tick, on the primary and on the statsbeat exporter;
\* the only export begun after the signal is the one flush made by close() on
\* the primary, and once the thread is finished none begins.
C12_ShuttingDownTerminal ==
  /\ []((Signalled /\ exporter_thread # "none" /\ sd_pc \notin {"flush", "flushing"})
          => exporter_thread = "finished")
  /\ [][/\ (Signalled /\ exporter_thread # "none") => ticks' = ticks
        /\ (Signalled /\ exporter_thread # "none" /\ pc = "idle" /\ pc' # "idle")
             => ~is_stats /\ sd_pc = "flush" /\ sd_pc' = "flushing"
        /\ exporter_thread = "finished"
             => /\ exporter_thread' = "finished"
                /\ pc = "idle" => pc' = "idle"]_vars

C12_Witness ==
  /\ is_stats
  /\ exporter_thread = "finished"
  /\ thread_cancel_calls = 1
  /\ sd_pc = "idle"
  /\ pc = "idle"
  /\ ticks = 1
  /\ ticks < MaxTicks

\* C13 as stated: once shutdown has released the retry store, the export cycle
\* makes no put and runs no drain, and when shutdown has returned no cycle is
\* still under way.
C13_NoWriteAfterRelease ==
  [][storage_close_calls > 0
       => /\ blobs' = blobs
          /\ pc # "drain"
          /\ sd_pc = "idle" => pc \in {"idle", "done"}]_vars

IsHistogram(metric) == metric.type = CUMULATIVE_DISTRIBUTION

\* C14: a histogram metric converts to no envelope and raises nothing, however
\* many time series it holds and whatever they hold; a call of export_metrics
\* whose metrics are all histograms gathers nothing, has no batch and goes
\* past its loop without a transmission.
C14_HistogramsYieldNothing ==
  pc # "idle"
    => /\ \A i \in 1..Len(metrics) :
            IsHistogram(metrics[i])
              => /\ ~MetricRaises(metrics[i])
                 /\ metric_to_envelopes(is_stats, options.instrumentation_key,
                                        metrics[i]) = <<>>
       /\ (\A i \in 1..Len(metrics) : IsHistogram(metrics[i]))
            => /\ ~Raised
               /\ envelopes = <<>>
               /\ batches = <<>>
               /\ pc \in {"drain", "done"}
               /\ EventsOf({"tx", "skip", "put"}) = {}

C14_Witness ==
  /\ pc = "drain"
  /\ Len(metrics) = 1
  /\ IsHistogram(metrics[1])
  /\ Len(metrics[1].time_series) = 2
  /\ metrics[1].time_series[1].points = <<>>
  /\ Len(metrics[1].time_series[2].points) = 2
  /\ envelopes = <<>>

\* the number of envelopes that the metrics before the i-th have contributed
RECURSIVE Offset(_)
Offset(i) ==
  IF i = 1 THEN 0
  ELSE Offset(i - 1) + (IF IsHistogram(metrics[i - 1]) THEN 0
                        ELSE Len(metrics[i - 1].time_series))

KeySet(md) == {md.label_keys[i] : i \in 1..Len(md.label_keys)}

AnswersTo(i) == EventsFor({"answer"}, i)

RedirectsTo(i) == {k \in AnswersTo(i) : trace[k].r = REDIRECT}

\* C16: the counter of consecutive redirects is 0 in a new exporter and never
\* above the ceiling; a call of _transmit sends one request and then one more
\* for each redirect it follows, at most the ceiling; a call that was answered
\* with nothing but redirects has followed exactly the ceiling and returns RETRY.
C16_RedirectsBounded ==
  /\ _consecutive_redirects \in 0..MaxConsecutiveRedirects
  /\ (phase # "constructed" \/ pc = "idle") => _consecutive_redirects = 0
  /\ pc \in {"sending", "handle"}
       => /\ Cardinality(EventsFor({"send"}, idx)) = _consecutive_redirects + 1
          /\ Cardinality(EventsFor({"send"}, idx)) <= MaxConsecutiveRedirects + 1
  /\ pc = "sending" => Cardinality(RedirectsTo(idx)) = _consecutive_redirects
  /\ pc = "handle"
       => /\ AnswersTo(idx) # {}
          /\ IF AnswersTo(idx) = RedirectsTo(idx)
             THEN /\ result = RETRY
                  /\ _consecutive_redirects = MaxConsecutiveRedirects
                  /\ Cardinality(RedirectsTo(idx)) = MaxConsecutiveRedirects + 1
             ELSE /\ result # REDIRECT
                  /\ Cardinality(RedirectsTo(idx)) = _consecutive_redirects

C16_Witness ==
  /\ pc = "handle"
  /\ idx = 2
  /\ result = RETRY
  /\ AnswersTo(2) = RedirectsTo(2)
  /\ _consecutive_redirects = MaxConsecutiveRedirects
  /\ Cardinality(EventsFor({"send"}, 2)) = MaxConsecutiveRedirects + 1
  /\ Cardinality(RedirectsTo(1)) = 1

\* C17: right after a maintenance sweep the sizes of the records in the store
\* add up to at most storage_max_size, whatever the cycles have put, and what
\* the sweep has left is the newest of the unexpired records: the oldest went
\* first, and no more of them than the cap required.
C17_SizeCapAfterSweep ==
  /\ [](swept => TotalSize(blobs) <= options.storage_max_size)
  /\ [][(swept' /\ (~swept \/ blobs' # blobs))
         => LET kept == Unexpired(blobs)
                gone == Len(kept) - Len(blobs')
            IN /\ gone >= 0
               /\ blobs' = SubSeq(kept, gone + 1, Len(kept))
               /\ gone > 0
                    => TotalSize(SubSeq(kept, gone, Len(kept)))
                         > options.storage_max_size]_vars

C17_Witness ==
  /\ swept
  /\ now = 0
  /\ pc = "done"
  /\ Cardinality(EventsOf({"put"})) = 3
  /\ options.storage_max_size = 2
  /\ Len(blobs) = 2
  /\ TotalSize(blobs) = 2

\* every time series carries a label value for each label key of its descriptor
LabelsComplete ==
  \A i \in 1..Len(metrics) :
    \A j \in 1..Len(metrics[i].time_series) :
      Len(metrics[i].time_series[j].label_values) >= Len(metrics[i].label_keys)

\* C18 as stated: converting raises nothing, whatever the time series hold, a
\* time series with no point included; a metric that is not a histogram gives
\* one envelope for each time series, in their order, which carries the value
\* and the timestamp of the first point of the series however many points
\* there are.
C18_OneEnvelopePerSeries ==
  (pc # "idle" /\ LabelsComplete)
    => /\ ~Raised
       /\ Len(envelopes) = Offset(Len(metrics) + 1)
       /\ \A i \in 1..Len(metrics) :
            ~IsHistogram(metrics[i])
              => \A j \in 1..Len(metrics[i].time_series) :
                   LET ts == metrics[i].time_series[j]
                       envelope == envelopes[Offset(i) + j]
                   IN ts.points # <<>>
                        => /\ Len(envelope.metrics) = 1
                           /\ envelope.metrics[1].value = ts.points[1].value
                           /\ envelope.time = IsoFormat(ts.points[1].timestamp)

\* a step of the drain that takes a record from the store and sends it again
DrainStep ==
  /\ pc = "drain"
  /\ Len(trace') > Len(trace)
  /\ trace'[Len(trace) + 1].ev = "retx"

\* the record taken is the one this very cycle has put: a cycle that drains
\* has had at most one batch, and its record is the last the drain gets to
TakesFresh == DrainStep /\ EventsOf({"put"}) # {} /\ Oldest = drain_mark

\* C19 as stated: with a positive minimum retry interval, the drain of a cycle
\* never sends again the batch that the same cycle has put.
C19_NotRetransmittedInSameCycle ==
  [][options.minimum_retry_interval > 0 => ~TakesFresh]_vars

\* C19 (amended): the drain sends again only records whose write time plus
\* minimum retry interval has elapsed; the batch that the cycle itself has put
\* is among them only when the clock has advanced by the interval since the
\* put, and then it is the last thing the drain takes, so a batch is sent at
\* most twice in a cycle, and once when no time passes between put and drain.
C19_RetransmittedOnlyWhenElapsed ==
  [][/\ DrainStep
          => trace'[Len(trace) + 1].i + options.minimum_retry_interval <= now
     /\ TakesFresh
          => /\ blobs[drain_mark].wtime + options.minimum_retry_interval <= now
             /\ now > blobs[drain_mark].wtime
             /\ drain_mark' = 0
     /\ (pc = "drain" /\ drain_mark = 0 /\ trace' # trace)
          => pc' = "done" /\ trace'[Len(trace')].ev = "end"]_vars

C19_Witness ==
  /\ pc = "done"
  /\ ticks = 1
  /\ shutdowns = 0
  /\ options.minimum_retry_interval = 1
  /\ Cardinality(EventsOf({"tx"})) = 1
  /\ Cardinality(EventsOf({"put"})) = 1
  /\ Cardinality(EventsOf({"retx"})) = 1
  /\ now = 1
  /\ blobs = <<>>

\* C20: a construction that has failed has opened no store, registered no exit
\* hook and has no exporter thread, and nothing runs on it afterwards; the
\* error is that of the key whenever the key is invalid, also when the batch
\* size is invalid too, and that of the batch size only for a valid key.
C20_FailedConstructionLeavesNothing ==
  phase = "failed"
    => /\ storage = "none"
       /\ ~atexit_registered
       /\ exporter_thread = "none"
       /\ pc = "idle"
       /\ sd_pc = "idle"
       /\ shutdowns = 0
       /\ ticks = 0
       /\ blobs = <<>>
       /\ telemetry_processors = <<>>
       /\ options.instrumentation_key # WellFormedKey => error = "instrumentation_key"
       /\ error = "max_batch_size"
            <=> (options.instrumentation_key = WellFormedKey /\ options.max_batch_size <= 0)

C20_Witness ==
  /\ phase = "failed"
  /\ options.instrumentation_key = ""
  /\ options.max_batch_size = 0
  /\ options.enable_local_storage
  /\ error = "instrumentation_key"
  /\ storage = "none"
  /\ now = MaxTime

====
